---- MODULE Spec2Model ----
(***************************************************************************)
(* Model of Backend/azure_open_ai_service.py: class AzureOpenAIService.     *)
(*                                                                          *)
(* One service object is constructed (__init__, one step per statement)     *)
(* and, once construction has returned, get_chat_completion is invoked by   *)
(* the callers in Calls, whose steps interleave (one step per statement).   *)
(* Python lists are heap objects: a list is a cell of `heap`, and a         *)
(* variable or field holding a list holds the cell's index.  Strings whose  *)
(* case matters (roles) are sequences of one-character strings, so that     *)
(* str.lower() is computed; other strings are opaque.                       *)
(***************************************************************************)
EXTENDS Naturals, Sequences, FiniteSets

\* ------------------------------------------------------------------ bounds

\* longest ModelConfig.messages
MaxCfgLen == 2
\* longest history of a request the caller builds from scratch
MaxHistLen == 2
\* most choices in one remote reply
MaxChoices == 2
\* last instant of the wall clock
MaxClock == 1

\* ----------------------------------------------------------------- strings

\* Python's None, where an object is expected
None == [none |-> TRUE]
\* a local holding a string that is not bound yet
Unbound == "<unbound>"
\* a local holding a list that is not bound yet (no cell of the heap)
NoList == 0
\* no exception was raised
NoException == "<no exception>"

UpperCase == <<"A","B","C","D","E","F","G","H","I","J","K","L","M",
               "N","O","P","Q","R","S","T","U","V","W","X","Y","Z">>
LowerCase == <<"a","b","c","d","e","f","g","h","i","j","k","l","m",
               "n","o","p","q","r","s","t","u","v","w","x","y","z">>

\* one character of str.lower()
LowerChar(ch) ==
    IF \E k \in DOMAIN UpperCase : UpperCase[k] = ch
    THEN LowerCase[CHOOSE k \in DOMAIN UpperCase : UpperCase[k] = ch]
    ELSE ch

\* str.lower()
Lower(s) == [k \in DOMAIN s |-> LowerChar(s[k])]

\* the role literals of the source
system == <<"s","y","s","t","e","m">>
user == <<"u","s","e","r">>
assistant == <<"a","s","s","i","s","t","a","n","t">>

\* other spellings a configuration or a history may hold
System == <<"S","y","s","t","e","m">>
SYSTEM == <<"S","Y","S","T","E","M">>
User == <<"U","s","e","r">>

\* ------------------------------------------------------------------ inputs

Calls == {"c1", "c2"}

\* sequences over S of length at most n
SeqUpTo(S, n) == UNION {[1..k -> S] : k \in 0..n}

\* entries ModelConfig.messages may hold
CfgEntries ==
    { [role |-> system, content |-> "Be concise."],
      [role |-> SYSTEM, content |-> "Be kind."],
      [role |-> user,   content |-> "Example"] }

\* an LLMConfiguration object holding the messages ms
ModelConfig(ms) ==
    [model |-> "gpt", max_completion_tokens |-> 100, temperature |-> 7, messages |-> ms]

\* the LLMConfiguration objects a caller may pass
ModelConfigs == {ModelConfig(ms) : ms \in SeqUpTo(CfgEntries, MaxCfgLen)}

\* the AzureOpenAIConnectionInfo object a caller may pass
ConnectionInfo == [api_version |-> "2024-10-21", endpoint |-> "https://aoai.example"]

\* prior turns a caller may hand in (timestamped before the clock starts)
HistEntries ==
    { [role |-> user,      content |-> "q", timestamp |-> 0],
      [role |-> system,    content |-> "s", timestamp |-> 0],
      [role |-> User,      content |-> "Q", timestamp |-> 0] }

\* new user inputs
Messages == {"Hi", "Bye"}

\* contents the remote model may answer with
Replies == {"Hello!", "Ok"}

\* what the remote call may raise
RemoteErrors == {"Unauthorized", "RateLimited", "Timeout", "InvalidResponse"}

\* a remote reply: a list of choices, each holding a message
RemoteResponse(cs) ==
    [choices |-> [k \in DOMAIN cs |-> [message |-> [role |-> assistant, content |-> cs[k]]]]]

\* the remote replies
RemoteResponses == {RemoteResponse(cs) : cs \in SeqUpTo(Replies, MaxChoices)}

\* the histories a caller may build from scratch
Histories == SeqUpTo(HistEntries, MaxHistLen)

\* the inputs of the interleaved calls
FewModelConfigs ==
    { ModelConfig(<<[role |-> SYSTEM, content |-> "Be kind."],
                    [role |-> user, content |-> "Example"]>>),
      ModelConfig(<<[role |-> system, content |-> "Be concise."]>>) }
FewHistories ==
    { <<>>, <<[role |-> User, content |-> "Q", timestamp |-> 0]>>,
      <<[role |-> system, content |-> "s", timestamp |-> 0]>> }
FewResponses == {RemoteResponse(<<"Hello!">>), RemoteResponse(<<"Ok">>)}
FewErrors == {"RateLimited", "Timeout"}

\* --------------------------------------------------------------- the state

VARIABLES
    \* __init__
    connection_info,    \* argument
    model_config,       \* argument
    init_pc,            \* position in __init__
    token_provider,     \* local
    self_model_config,  \* self.model_config
    self_client,        \* self.client
    init_raised,        \* the exception __init__ raised
    \* the world
    heap,               \* the list objects
    clock,              \* the wall clock
    \* get_chat_completion, per call
    pc,                 \* position
    request,            \* argument
    messages,           \* local
    it,                 \* entries the for loop has consumed
    response,           \* local
    response_content,   \* local
    history,            \* local (a list)
    returned,           \* the ChatResponse returned
    raised,             \* the exception raised
    \* observation
    remote,             \* the remote requests the call issued, each with its outcome
    history_before      \* request.history's entries when the call began

initVars == <<connection_info, model_config, init_pc, token_provider,
              self_model_config, self_client, init_raised>>
callVars == <<pc, request, messages, it, response, response_content, history,
              returned, raised, remote, history_before>>
vars == <<initVars, heap, clock, callVars>>

\* ---------------------------------------------------------------- __init__

\* the validation left out
NotIgnored(x) == FALSE

\* Python's `not x` for the constructor's arguments
Not(x) == x = None

\* get_bearer_token_provider(DefaultAzureCredential(), scope)
GetBearerTokenProvider ==
    [credential |-> "DefaultAzureCredential",
     scope |-> "https://cognitiveservices.azure.com/.default"]

\* AzureOpenAI(api_version=..., azure_endpoint=..., azure_ad_token_provider=...)
AzureOpenAI(info, provider) ==
    [api_version |-> info.api_version,
     azure_endpoint |-> info.endpoint,
     azure_ad_token_provider |-> provider]

InitCheckConnectionInfo ==
    /\ init_pc = "l24"
    /\ IF Not(connection_info)
       THEN /\ init_raised' = "ValueError: connection_info cannot be None"
            /\ init_pc' = "raised"
       ELSE /\ init_pc' = "l26"
            /\ UNCHANGED init_raised
    /\ UNCHANGED <<connection_info, model_config, token_provider,
                   self_model_config, self_client, heap, clock, callVars>>

InitCheckModelConfig ==
    /\ init_pc = "l26"
    /\ IF Not(model_config)
       THEN /\ init_raised' = "ValueError: model_config cannot be None"
            /\ init_pc' = "raised"
       ELSE /\ init_pc' = "l29"
            /\ UNCHANGED init_raised
    /\ UNCHANGED <<connection_info, model_config, token_provider,
                   self_model_config, self_client, heap, clock, callVars>>

InitSetModelConfig ==
    /\ init_pc = "l29"
    /\ self_model_config' = model_config
    /\ init_pc' = "l31"
    /\ UNCHANGED <<connection_info, model_config, token_provider,
                   self_client, init_raised, heap, clock, callVars>>

InitTokenProvider ==
    /\ init_pc = "l31"
    /\ token_provider' = GetBearerTokenProvider
    /\ init_pc' = "l35"
    /\ UNCHANGED <<connection_info, model_config, self_model_config,
                   self_client, init_raised, heap, clock, callVars>>

InitClient ==
    /\ init_pc = "l35"
    /\ IF connection_info = None
       THEN /\ init_raised' = "AttributeError"
            /\ init_pc' = "raised"
            /\ UNCHANGED self_client
       ELSE /\ self_client' = AzureOpenAI(connection_info, token_provider)
            /\ init_pc' = "ready"
            /\ UNCHANGED init_raised
    /\ UNCHANGED <<connection_info, model_config, token_provider,
                   self_model_config, heap, clock, callVars>>

\* ------------------------------------------------------ get_chat_completion

\* the filter without .lower()
GetSystemMessagesCaseSensitive(cfg) ==
    LET keep(msg) == msg.role = system
        kept == SelectSeq(cfg.messages, keep)
    IN  [k \in DOMAIN kept |-> [role |-> system, content |-> kept[k].content]]

\* _get_system_messages applied to a configuration
GetSystemMessages(cfg) ==
    LET keep(msg) == Lower(msg.role) = system
        kept == SelectSeq(cfg.messages, keep)
    IN  [k \in DOMAIN kept |-> [role |-> system, content |-> kept[k].content]]

\* the role normalised as the configured roles are
HistoryMessageLowered(message) ==
    [role |-> Lower(message.role), content |-> message.content]

\* the dict a history entry is forwarded as
HistoryMessage(message) == [role |-> message.role, content |-> message.content]

\* the role spelled with a capital
UserMessageCapitalized(req) == [role |-> User, content |-> req.message]

\* the dict the current user message is forwarded as
UserMessage(req) == [role |-> user, content |-> req.message]

\* the keyword arguments of client.chat.completions.create
CreateArgs(msgs, cfg) ==
    [messages |-> msgs,
     max_tokens |-> cfg.max_completion_tokens,
     temperature |-> cfg.temperature,
     top_p |-> 1,
     model |-> cfg.model]

\* one request as the remote endpoint saw it: the arguments, and what it answered
RemoteRequest(args, error, resp) == [args |-> args, raised |-> error, response |-> resp]

\* response.choices[-1].message.content
LastChoiceContent(resp) == resp.choices[Len(resp.choices)].message.content

\* response.choices[0].message.content
FirstChoiceContent(resp) == resp.choices[1].message.content

\* ChatbotMessage(role=..., content=..., timestamp=...)
ChatbotMessage(role, content, timestamp) ==
    [role |-> role, content |-> content, timestamp |-> timestamp]

\* ChatResponse(message=..., history=...)
ChatResponse(message, hist) == [message |-> message, history |-> hist]

\* history = []: a new list holding nothing
ListCopyEmpty(h, ref) == [heap |-> Append(h, <<>>), ref |-> Len(h) + 1]

\* history = request.history: the same list
ListCopyAlias(h, ref) == [heap |-> h, ref |-> ref]

\* list.copy(): the heap with a new list holding the same entries, and that list
ListCopy(h, ref) == [heap |-> Append(h, h[ref]), ref |-> Len(h) + 1]

\* list.append()
ListAppend(h, ref, x) == [h EXCEPT ![ref] = Append(@, x)]

\* the lists a caller holds: histories of requests made and of responses returned
CallerLists ==
    {request[c].history : c \in {d \in Calls : request[d] # None}}
      \cup {returned[c].history : c \in {d \in Calls : returned[d] # None}}

\* the caller invokes get_chat_completion with a request whose history is a new list
CallFresh(c, Hs) ==
    /\ init_pc = "ready"
    /\ pc[c] = "idle"
    /\ \E m \in Messages, h \in Hs :
         /\ heap' = Append(heap, h)
         /\ request' = [request EXCEPT ![c] = [message |-> m, history |-> Len(heap) + 1]]
         /\ history_before' = [history_before EXCEPT ![c] = h]
    /\ pc' = [pc EXCEPT ![c] = "l45"]
    /\ UNCHANGED <<initVars, clock, messages, it, response, response_content,
                   history, returned, raised, remote>>

\* the caller invokes get_chat_completion with a request whose history is a list
\* it already holds (an earlier request's or response's history)
CallChained(c) ==
    /\ init_pc = "ready"
    /\ pc[c] = "idle"
    /\ \E m \in Messages, ref \in CallerLists :
         /\ request' = [request EXCEPT ![c] = [message |-> m, history |-> ref]]
         /\ history_before' = [history_before EXCEPT ![c] = heap[ref]]
    /\ pc' = [pc EXCEPT ![c] = "l45"]
    /\ UNCHANGED <<initVars, heap, clock, messages, it, response, response_content,
                   history, returned, raised, remote>>

\* line 45: messages = self._get_system_messages()
SystemMessages(c) ==
    /\ pc[c] = "l45"
    /\ messages' = [messages EXCEPT ![c] = GetSystemMessages(self_model_config)]
    /\ it' = [it EXCEPT ![c] = 0]
    /\ pc' = [pc EXCEPT ![c] = "l48"]
    /\ UNCHANGED <<initVars, heap, clock, request, response, response_content,
                   history, returned, raised, remote, history_before>>

\* messages is the configuration's own list: the iteration appends to it too
AppendHistoryShared(c) ==
    /\ pc[c] = "l48"
    /\ it[c] < Len(heap[request[c].history])
    /\ messages' = [messages EXCEPT
                      ![c] = Append(@, HistoryMessage(heap[request[c].history][it[c] + 1]))]
    /\ self_model_config' =
         [self_model_config EXCEPT
            !.messages = Append(@, HistoryMessage(heap[request[c].history][it[c] + 1]))]
    /\ it' = [it EXCEPT ![c] = @ + 1]
    /\ UNCHANGED <<connection_info, model_config, init_pc, token_provider, self_client,
                   init_raised, heap, clock, pc, request, response, response_content,
                   history, returned, raised, remote, history_before>>

\* lines 48-49: one iteration of the loop over request.history
AppendHistory(c) ==
    /\ pc[c] = "l48"
    /\ it[c] < Len(heap[request[c].history])
    /\ messages' = [messages EXCEPT
                      ![c] = Append(@, HistoryMessage(heap[request[c].history][it[c] + 1]))]
    /\ it' = [it EXCEPT ![c] = @ + 1]
    /\ UNCHANGED <<initVars, heap, clock, pc, request, response, response_content,
                   history, returned, raised, remote, history_before>>

\* line 52, once the loop is exhausted: messages.append({"role": "user", ...})
AppendUserMessage(c) ==
    /\ pc[c] = "l48"
    /\ it[c] >= Len(heap[request[c].history])
    /\ messages' = [messages EXCEPT ![c] = Append(@, UserMessage(request[c]))]
    /\ pc' = [pc EXCEPT ![c] = "l54"]
    /\ UNCHANGED <<initVars, heap, clock, request, it, response, response_content,
                   history, returned, raised, remote, history_before>>

\* lines 54-60: the remote call answers
CreateReturns(c, Rs) ==
    /\ pc[c] = "l54"
    /\ \E resp \in Rs :
         /\ remote' = [remote EXCEPT
                         ![c] = Append(@, RemoteRequest(CreateArgs(messages[c], self_model_config),
                                                        NoException, resp))]
         /\ response' = [response EXCEPT ![c] = resp]
    /\ pc' = [pc EXCEPT ![c] = "l62"]
    /\ UNCHANGED <<initVars, heap, clock, request, messages, it, response_content,
                   history, returned, raised, history_before>>

\* the failure caught and answered with an empty reply
CreateRaisesSwallowed(c, Es) ==
    /\ pc[c] = "l54"
    /\ \E e \in Es :
         remote' = [remote EXCEPT
                      ![c] = Append(@, RemoteRequest(CreateArgs(messages[c], self_model_config),
                                                     e, None))]
    /\ returned' = [returned EXCEPT ![c] = ChatResponse("", request[c].history)]
    /\ pc' = [pc EXCEPT ![c] = "returned"]
    /\ UNCHANGED <<initVars, heap, clock, request, messages, it, response,
                   response_content, history, raised, history_before>>

\* the failure caught and the request issued again
CreateRaisesRetried(c, Es) ==
    /\ pc[c] = "l54"
    /\ Len(remote[c]) < 2
    /\ \E e \in Es :
         remote' = [remote EXCEPT
                      ![c] = Append(@, RemoteRequest(CreateArgs(messages[c], self_model_config),
                                                     e, None))]
    /\ UNCHANGED <<initVars, heap, clock, pc, request, messages, it, response,
                   response_content, history, returned, raised, history_before>>

\* lines 54-60: the remote call raises, and nothing catches it
CreateRaises(c, Es) ==
    /\ pc[c] = "l54"
    /\ \E e \in Es :
         /\ remote' = [remote EXCEPT
                         ![c] = Append(@, RemoteRequest(CreateArgs(messages[c], self_model_config),
                                                        e, None))]
         /\ raised' = [raised EXCEPT ![c] = e]
    /\ pc' = [pc EXCEPT ![c] = "raised"]
    /\ UNCHANGED <<initVars, heap, clock, request, messages, it, response,
                   response_content, history, returned, history_before>>

\* line 62: response_content = response.choices[0].message.content
ExtractContent(c) ==
    /\ pc[c] = "l62"
    /\ IF Len(response[c].choices) = 0
       THEN /\ raised' = [raised EXCEPT ![c] = "IndexError"]
            /\ pc' = [pc EXCEPT ![c] = "raised"]
            /\ UNCHANGED response_content
       ELSE /\ response_content' = [response_content EXCEPT ![c] = FirstChoiceContent(response[c])]
            /\ pc' = [pc EXCEPT ![c] = "l65"]
            /\ UNCHANGED raised
    /\ UNCHANGED <<initVars, heap, clock, request, messages, it, response,
                   history, returned, remote, history_before>>

\* line 65: history = request.history.copy()
CopyHistory(c) ==
    /\ pc[c] = "l65"
    /\ LET cp == ListCopy(heap, request[c].history)
       IN  /\ heap' = cp.heap
           /\ history' = [history EXCEPT ![c] = cp.ref]
    /\ pc' = [pc EXCEPT ![c] = "l66"]
    /\ UNCHANGED <<initVars, clock, request, messages, it, response, response_content,
                   returned, raised, remote, history_before>>

\* datetime.now(tz=timezone.utc): the wall clock, read where it has got to
Now == clock' \in {t \in {clock, clock + 1} : t <= MaxClock}

\* lines 66-72: history.append(ChatbotMessage(role="user", ...))
AppendUserEntry(c) ==
    /\ pc[c] = "l66"
    /\ Now
    /\ heap' = ListAppend(heap, history[c],
                          ChatbotMessage(user, request[c].message, clock'))
    /\ pc' = [pc EXCEPT ![c] = "l73"]
    /\ UNCHANGED <<initVars, request, messages, it, response, response_content,
                   history, returned, raised, remote, history_before>>

\* lines 73-79: history.append(ChatbotMessage(role="assistant", ...))
AppendAssistantEntry(c) ==
    /\ pc[c] = "l73"
    /\ Now
    /\ heap' = ListAppend(heap, history[c],
                          ChatbotMessage(assistant, response_content[c], clock'))
    /\ pc' = [pc EXCEPT ![c] = "l81"]
    /\ UNCHANGED <<initVars, request, messages, it, response, response_content,
                   history, returned, raised, remote, history_before>>

\* line 81: return ChatResponse(message=response_content, history=history)
Return(c) ==
    /\ pc[c] = "l81"
    /\ returned' = [returned EXCEPT ![c] = ChatResponse(response_content[c], history[c])]
    /\ pc' = [pc EXCEPT ![c] = "returned"]
    /\ UNCHANGED <<initVars, heap, clock, request, messages, it, response,
                   response_content, history, raised, remote, history_before>>

\* ------------------------------------------------------- the specification

\* the state before __init__ runs, the configuration drawn from Cfgs
InitWith(Cfgs) ==
    /\ connection_info \in {None, ConnectionInfo}
    /\ model_config \in {None} \cup Cfgs
    /\ init_pc = "l24"
    /\ token_provider = None
    /\ self_model_config = None
    /\ self_client = None
    /\ init_raised = NoException
    /\ heap = <<>>
    /\ clock = 0
    /\ pc = [c \in Calls |-> "idle"]
    /\ request = [c \in Calls |-> None]
    /\ messages = [c \in Calls |-> <<>>]
    /\ it = [c \in Calls |-> 0]
    /\ response = [c \in Calls |-> None]
    /\ response_content = [c \in Calls |-> Unbound]
    /\ history = [c \in Calls |-> NoList]
    /\ returned = [c \in Calls |-> None]
    /\ raised = [c \in Calls |-> NoException]
    /\ remote = [c \in Calls |-> <<>>]
    /\ history_before = [c \in Calls |-> <<>>]

\* a step of __init__
InitStep ==
    \/ InitCheckConnectionInfo
    \/ InitCheckModelConfig
    \/ InitSetModelConfig
    \/ InitTokenProvider
    \/ InitClient

\* a step of call c past its invocation and the remote call
LocalStep(c) ==
    \/ SystemMessages(c)
    \/ AppendHistory(c)
    \/ AppendUserMessage(c)
    \/ ExtractContent(c)
    \/ CopyHistory(c)
    \/ AppendUserEntry(c)
    \/ AppendAssistantEntry(c)
    \/ Return(c)

\* One call, its inputs drawn from the bounded sets.
Init == InitWith(ModelConfigs)

Next ==
    \/ InitStep
    \/ CallFresh("c1", Histories)
    \/ CreateReturns("c1", RemoteResponses)
    \/ CreateRaises("c1", RemoteErrors)
    \/ LocalStep("c1")

Spec == Init /\ [][Next]_vars

\* The calls of Calls interleaved, a call's history a new list or one the caller
\* already holds.
InitConcurrent == InitWith(FewModelConfigs)

NextConcurrent ==
    \/ InitStep
    \/ \E c \in Calls :
         \/ CallFresh(c, FewHistories)
         \/ CallChained(c)
         \/ CreateReturns(c, FewResponses)
         \/ CreateRaises(c, FewErrors)
         \/ LocalStep(c)

SpecConcurrent == InitConcurrent /\ [][NextConcurrent]_vars

\* ---------------------------------------------------------------- notions

\* get_chat_completion was invoked for call c
Invoked(c) == request[c] # None

\* call c handed a request to the remote endpoint
Issued(c) == Len(remote[c]) >= 1

\* the message list of call c's first remote request
Outbound(c) == remote[c][1].args.messages

\* the entries request.history holds now
RequestHistory(c) == heap[request[c].history]

\* r spells "system" in some mix of upper and lower case
IsSystemRole(r) ==
    /\ Len(r) = Len(system)
    /\ \A k \in 1..Len(r) : r[k] \in {system[k], SYSTEM[k]}

\* the entries of a configuration whose role is "system" whatever its case
ConfiguredSystemEntries(cfg) ==
    LET isSystem(m) == IsSystemRole(m.role)
    IN  SelectSeq(cfg.messages, isSystem)

\* the message list the spec prescribes for a configuration, a history and a message
ExpectedOutbound(cfg, hist, msg) ==
    LET sys == ConfiguredSystemEntries(cfg)
    IN  [k \in 1..Len(sys) |-> [role |-> system, content |-> sys[k].content]]
          \o [k \in 1..Len(hist) |-> [role |-> hist[k].role, content |-> hist[k].content]]
          \o <<[role |-> user, content |-> msg]>>

\* ------------------------------------------------------------------ claims

\* C1: when get_chat_completion returns, response.history has
\* len(request.history) + 2 entries and begins with request.history's entries in order.
C1_HistoryExtended ==
    \A c \in Calls :
        pc[c] = "returned" =>
            LET h == heap[returned[c].history]
                r == RequestHistory(c)
            IN  /\ Len(h) = Len(r) + 2
                /\ SubSeq(h, 1, Len(r)) = r

\* a call returned whose request carried two prior turns
C1_Witness ==
    \E c \in Calls : pc[c] = "returned" /\ Len(RequestHistory(c)) >= 2

\* C2: when get_chat_completion returns, the second-to-last entry of response.history
\* is the user's turn (role "user", content request.message), the last is the
\* assistant's (role "assistant", content response.message), and response.message is
\* the content of the remote reply's first choice.
C2_NewTurns ==
    \A c \in Calls :
        pc[c] = "returned" =>
            LET h == heap[returned[c].history]
                n == Len(h)
            IN  /\ n >= 2
                /\ h[n - 1].role = user
                /\ h[n - 1].content = request[c].message
                /\ h[n].role = assistant
                /\ h[n].content = returned[c].message
                /\ returned[c].message = remote[c][1].response.choices[1].message.content

\* a call returned whose remote reply held two choices with different contents
C2_Witness ==
    \E c \in Calls :
        /\ pc[c] = "returned"
        /\ Len(response[c].choices) = 2
        /\ response[c].choices[1].message.content # response[c].choices[2].message.content

\* C3: from its invocation on, whether the call is running, has returned or has
\* raised, request.history holds the entries it held at the invocation, and the
\* history the call builds and returns is another list than request.history.
C3_RequestHistoryUntouched ==
    \A c \in Calls :
        Invoked(c) =>
            /\ RequestHistory(c) = history_before[c]
            /\ history[c] # NoList => history[c] # request[c].history
            /\ returned[c] # None => returned[c].history # request[c].history

\* a call returned a history, which a later call was given as its request's history
\* and then raised
C3_Witness ==
    \E c, d \in Calls :
        /\ pc[c] = "returned"
        /\ pc[d] = "raised"
        /\ request[d].history = returned[c].history
        /\ Len(history_before[c]) >= 1

\* C4: the message list handed to the remote endpoint is the configured system
\* messages, then one {role, content} pair per entry of request.history in order,
\* then {role: "user", content: request.message}, and nothing else.
C4_OutboundList ==
    \A c \in Calls :
        Issued(c) =>
            Outbound(c) = ExpectedOutbound(model_config, history_before[c], request[c].message)

\* a request was issued for a two-turn history under a configuration holding a
\* system message and another one
C4_Witness ==
    \E c \in Calls :
        /\ Issued(c)
        /\ Len(history_before[c]) >= 2
        /\ Len(ConfiguredSystemEntries(model_config)) >= 1
        /\ Len(ConfiguredSystemEntries(model_config)) < Len(model_config.messages)

\* C5 as amended: the configured entries whose role is "system" in any case, and
\* only they, open the outbound list, in declaration order; what follows them is
\* the history and the user message, whatever their roles.
C5_ConfiguredSystemFirst ==
    \A c \in Calls :
        Issued(c) =>
            LET sys == ConfiguredSystemEntries(model_config)
                out == Outbound(c)
            IN  /\ Len(out) = Len(sys) + Len(history_before[c]) + 1
                /\ \A k \in 1..Len(sys) :
                     /\ IsSystemRole(out[k].role)
                     /\ out[k].content = sys[k].content

\* C5 as stated: the above, and no message of the outbound list whose role is not
\* "system" precedes one whose role is.
C5_NoSystemAfterOther ==
    \A c \in Calls :
        Issued(c) =>
            LET sys == ConfiguredSystemEntries(model_config)
                out == Outbound(c)
            IN  /\ Len(out) = Len(sys) + Len(history_before[c]) + 1
                /\ \A k \in 1..Len(sys) :
                     /\ IsSystemRole(out[k].role)
                     /\ out[k].content = sys[k].content
                /\ \A i, j \in 1..Len(out) :
                     (i < j /\ IsSystemRole(out[j].role)) => IsSystemRole(out[i].role)

\* a request was issued under a configuration whose system entry is spelled in
\* capitals and follows another entry, for a history whose system turn follows a
\* user turn
C5_Witness ==
    \E c \in Calls :
        /\ Issued(c)
        /\ Len(model_config.messages) = 2
        /\ model_config.messages[1].role = user
        /\ model_config.messages[2].role = SYSTEM
        /\ Len(history_before[c]) = 2
        /\ history_before[c][1].role = user
        /\ history_before[c][2].role = system

\* C6: with connection_info or model_config None, __init__ gets no further than
\* its two checks and ends in a ValueError: no token provider is acquired, no
\* client is built, no call runs and no remote request is issued.
C6_NullArgumentFailsFast ==
    (connection_info = None \/ model_config = None) =>
        /\ init_pc \in {"l24", "l26", "raised"}
        /\ init_pc = "raised" =>
             init_raised \in {"ValueError: connection_info cannot be None",
                              "ValueError: model_config cannot be None"}
        /\ token_provider = None
        /\ self_client = None
        /\ \A c \in Calls : pc[c] = "idle" /\ remote[c] = <<>>

\* __init__ raised for a model_config of None, the connection_info given
C6_Witness ==
    /\ init_pc = "raised"
    /\ connection_info # None
    /\ model_config = None

\* C7: a failure of the remote call ends the call with that very failure and no
\* ChatResponse; a call ends either with a complete ChatResponse or with an error,
\* never both, and while it has not ended it can go on.
C7_FailurePropagates ==
    \A c \in Calls :
        /\ (Issued(c) /\ remote[c][1].raised # NoException) =>
             /\ pc[c] = "raised"
             /\ raised[c] = remote[c][1].raised
             /\ returned[c] = None
             /\ history[c] = NoList
        /\ pc[c] = "returned" <=> returned[c] # None
        /\ pc[c] = "raised" <=> raised[c] # NoException
        /\ returned[c] # None =>
             /\ remote[c][1].raised = NoException
             /\ returned[c].message = remote[c][1].response.choices[1].message.content
             /\ Len(heap[returned[c].history]) = Len(history_before[c]) + 2
        /\ pc[c] \notin {"idle", "returned", "raised"} => ENABLED Next

\* the remote call timed out and the call raised
C7_Witness ==
    \E c \in Calls :
        /\ pc[c] = "raised"
        /\ Issued(c)
        /\ remote[c][1].raised = "Timeout"

\* C8: a call issues no remote request until its message list is complete, one
\* once it is, and never a second, whether the request succeeds or fails; the new
\* history does not exist before the request is issued.
C8_OneRemoteRequest ==
    \A c \in Calls :
        /\ Len(remote[c]) <= 1
        /\ pc[c] \in {"idle", "l45", "l48", "l54"} => Len(remote[c]) = 0
        /\ pc[c] \in {"l62", "l65", "l66", "l73", "l81", "returned", "raised"} =>
             Len(remote[c]) = 1
        /\ Len(remote[c]) = 0 => history[c] = NoList /\ returned[c] = None
        /\ Issued(c) =>
             /\ Outbound(c) = messages[c]
             /\ it[c] = Len(history_before[c])
             /\ messages[c][Len(messages[c])] = [role |-> user, content |-> request[c].message]

\* the one remote request of a call was rate limited, and the call raised
C8_Witness ==
    \E c \in Calls :
        /\ pc[c] = "raised"
        /\ Len(remote[c]) = 1
        /\ remote[c][1].raised = "RateLimited"

\* C9: over the interleavings of the calls, self.model_config and self.client
\* stay what __init__ set them to, and what a call sends and returns is determined
\* by its own request, the configuration and its own remote reply.
C9_CallsIndependent ==
    /\ init_pc = "ready" =>
         /\ self_model_config = model_config
         /\ self_client = [api_version |-> connection_info.api_version,
                           azure_endpoint |-> connection_info.endpoint,
                           azure_ad_token_provider |-> token_provider]
    /\ \A c \in Calls :
         /\ Issued(c) =>
              remote[c][1].args =
                  [messages |-> ExpectedOutbound(model_config, history_before[c],
                                                 request[c].message),
                   max_tokens |-> model_config.max_completion_tokens,
                   temperature |-> model_config.temperature,
                   top_p |-> 1,
                   model |-> model_config.model]
         /\ pc[c] = "returned" =>
              LET h == heap[returned[c].history]
                  reply == remote[c][1].response.choices[1].message.content
              IN  /\ returned[c].message = reply
                  /\ [k \in 1..Len(h) |-> [role |-> h[k].role, content |-> h[k].content]]
                       = [k \in 1..Len(history_before[c]) |->
                            [role |-> history_before[c][k].role,
                             content |-> history_before[c][k].content]]
                         \o <<[role |-> user, content |-> request[c].message],
                              [role |-> assistant, content |-> reply]>>

\* two calls that were running at the same time, with different requests and
\* different replies, have both returned
C9_Witness ==
    /\ pc["c1"] = "returned"
    /\ pc["c2"] = "returned"
    /\ request["c1"].history = 1
    /\ request["c2"].history = 2
    /\ history_before["c1"] # history_before["c2"]
    /\ returned["c1"].message # returned["c2"].message

\* C10: every entry of request.history is forwarded with the role string it is
\* stored with, whatever its case and also when it is "system", while every
\* configured system message is forwarded with the role "system".
C10_HistoryRolesVerbatim ==
    \A c \in Calls :
        Issued(c) =>
            LET out == Outbound(c)
                hist == history_before[c]
                n == Len(ConfiguredSystemEntries(model_config))
            IN  /\ Len(out) = n + Len(hist) + 1
                /\ \A k \in 1..n : out[k].role = system
                /\ \A k \in 1..Len(hist) : out[n + k].role = hist[k].role

\* a request was issued under a configuration with a system entry in capitals, for
\* a history holding a "User" turn and a "system" turn
C10_Witness ==
    \E c \in Calls :
        /\ Issued(c)
        /\ \E k \in 1..Len(model_config.messages) : model_config.messages[k].role = SYSTEM
        /\ \E k \in 1..Len(history_before[c]) : history_before[c][k].role = User
        /\ \E k \in 1..Len(history_before[c]) : history_before[c][k].role = system

====
